---- MODULE Spec2Model ----
(***************************************************************************)
(* A model of the pitch-speed pipeline of dev-yozakura/mlb.                *)
(*                                                                         *)
(*   Spec          the aggregation script (Qwen_python_20251012_wc9h50gs0) *)
(*                 run over a directory of game files: extraction of one   *)
(*                 game event by event, the fold of the games into the     *)
(*                 running aggregate, the final averages, the sorted       *)
(*                 output artifact.                                        *)
(*   SpecDownload  the download script (download.py) run, and rerun, over  *)
(*                 a range of dates with a cache directory.                *)
(*                                                                         *)
(* Speeds are Python floats.  A float is modelled as <<m, e>>, the value   *)
(* m * 2^e with a SigBits-bit significand m, rounded to nearest, ties to   *)
(* even, as IEEE-754 does it; binary64 has 53 bits, the model keeps the    *)
(* rounding rule and a narrower significand.                               *)
(***************************************************************************)
EXTENDS Integers, Sequences, FiniteSets, TLC

(***************************************************************************)
(* Bounds of the model.                                                    *)
(***************************************************************************)
SigBits == 8
MaxGames == 3
MaxPitches == 3
MaxDate == 3
MaxGamesPerDay == 2
MaxRuns == 2

(***************************************************************************)
(* Python floats.                                                          *)
(***************************************************************************)
RECURSIVE Pow2(_)
Pow2(n) == IF n = 0 THEN 1 ELSE 2 * Pow2(n - 1)

FZero == <<0, 0>>

\* The scaling of n/d into [2^(SigBits-1), 2^SigBits): <<n', d', e>> with
\* n/d = (n'/d') * 2^e.
RECURSIVE Scale(_, _, _)
Scale(n, d, e) ==
  IF n < Pow2(SigBits - 1) * d THEN Scale(2 * n, d, e - 1)
  ELSE IF n >= Pow2(SigBits) * d THEN Scale(n, 2 * d, e + 1)
  ELSE <<n, d, e>>

\* Round half to even of the integer quotient q with remainder r modulo d.
RoundHalfEven(q, r, d) ==
  IF 2 * r > d \/ (2 * r = d /\ q % 2 = 1) THEN q + 1 ELSE q

\* The float nearest to (n / d) * 2^s, for n >= 0 and d > 0.
Round(n, d, s) ==
  IF n = 0 THEN FZero
  ELSE LET t == Scale(n, d, 0)
           m == RoundHalfEven(t[1] \div t[2], t[1] % t[2], t[2])
       IN IF m = Pow2(SigBits) THEN <<Pow2(SigBits - 1), t[3] + s + 1>>
                               ELSE <<m, t[3] + s>>

IsFloat(x) ==
  x = FZero \/ (x[1] >= Pow2(SigBits - 1) /\ x[1] < Pow2(SigBits))

\* a > b on non-negative floats.
FGt(a, b) ==
  IF a[1] = 0 THEN FALSE
  ELSE IF b[1] = 0 THEN TRUE
  ELSE a[2] > b[2] \/ (a[2] = b[2] /\ a[1] > b[1])

FGe(a, b) == a = b \/ FGt(a, b)

\* a + b, rounded.
FAdd(a, b) ==
  IF a[1] = 0 THEN b
  ELSE IF b[1] = 0 THEN a
  ELSE LET em == IF a[2] < b[2] THEN a[2] ELSE b[2]
       IN Round(a[1] * Pow2(a[2] - em) + b[1] * Pow2(b[2] - em), 1, em)

\* a / k for an integer k > 0, rounded.
FDivInt(a, k) == Round(a[1], k, a[2])

\* sum(xs): Python adds from the left, starting from the integer 0.
RECURSIVE FSumFrom(_, _)
FSumFrom(acc, xs) ==
  IF xs = <<>> THEN acc ELSE FSumFrom(FAdd(acc, Head(xs)), Tail(xs))

FSum(xs) == FSumFrom(FZero, xs)

\* sum(xs) / len(xs)
Mean(xs) == FDivInt(FSum(xs), Len(xs))

\* float(raw) of a JSON number given in tenths of a mile per hour.
ToFloat(raw) == Round(raw, 10, 0)

(***************************************************************************)
(* Dictionaries: functions from keys to values.                            *)
(***************************************************************************)
EmptyDict == [k \in {} |-> FZero]

Get(d, k, default) == IF k \in DOMAIN d THEN d[k] ELSE default

Put(d, k, v) == [x \in DOMAIN d \cup {k} |-> IF x = k THEN v ELSE d[x]]

(***************************************************************************)
(* The input: what a game file can hold.                                   *)
(***************************************************************************)
FASTBALL_CODES == {"FF", "FT", "SI", "FC"}

\* A startSpeed that float() rejects (null, a non-numeric string).
BadRaw == -1

\* Person identifiers are positive; NoId stands for an absent id (None).
NoId == 0
PitcherIds == {1}

\* The fullName of a matchup or roster entry; NoName stands for an absent one.
NoName == "<none>"

\* matchup.pitcher of the plays of the model: a pitcher with id and name, one
\* without id, one without name.
Matchups ==
  {[id |-> 1, fullName |-> "Y"],
   [id |-> NoId, fullName |-> "Y"],
   [id |-> 1, fullName |-> NoName]}

\* liveData.players: absent or empty, or an entry for person 1 with or
\* without a fullName.
Rosters ==
  {EmptyDict} \cup {[i \in PitcherIds |-> n] : n \in {"X", NoName}}

\* A play event: pd says whether pitchData carries startSpeed (raw), ty
\* whether details carries type (code).
\* raw is in tenths of a mile per hour.  The events of the model: two
\* fastballs and a faster curveball, an event whose startSpeed float() rejects,
\* one without startSpeed, one without type.
Events ==
  {[pd |-> TRUE, raw |-> 930, ty |-> TRUE, code |-> "FF"],
   [pd |-> TRUE, raw |-> 953, ty |-> TRUE, code |-> "FF"],
   [pd |-> TRUE, raw |-> 990, ty |-> TRUE, code |-> "CU"],
   [pd |-> TRUE, raw |-> BadRaw, ty |-> TRUE, code |-> "FF"],
   [pd |-> FALSE, raw |-> BadRaw, ty |-> TRUE, code |-> "FF"],
   [pd |-> TRUE, raw |-> 990, ty |-> FALSE, code |-> "FF"]}

NoEvent == [pd |-> FALSE, raw |-> BadRaw, ty |-> FALSE, code |-> "FF"]

\* What opening and parsing a game file can give.
FileKinds ==
  {"not_found", "unparseable", "no_allPlays", "allPlays", "plays.allPlays"}

(***************************************************************************)
(* The state.                                                              *)
(***************************************************************************)
VARIABLES
  pc,                        \* where the aggregation script is
  total_files,               \* len(json_files)
  processed_files,
  all_max_speeds,            \* aggregate: name -> float
  all_avg_fastball_speeds,   \* aggregate: name -> list of per-game averages
  final_avg_fastball_speeds, \* name -> float
  kind,                      \* how the current game file opened
  players_data_raw,          \* current game: liveData.players
  player_names,              \* current game: id -> roster full name
  max_speeds,                \* current game: name -> float
  fastball_speeds_dict,      \* current game: name -> list of floats
  max_only_speeds,           \* current game: max_speeds of the max-only extractor
  pitcher_id,                \* current play
  pitcher_name_from_matchup, \* current play
  event,                     \* current event
  game_max_speeds,           \* what the extractor returned
  game_avg_fastball_speeds,
  artifact,                  \* the output file: a list of entries, or <<>>
  written,                   \* whether the output file was written
  cur_log,                   \* history: qualifying pitches of the current game
  results,                   \* history: per game, what was returned and from what
  dpc,                       \* where the download script is
  start_date,
  end_date,
  current_date,
  games_list,                \* the games of current_date still to download
  cache,                     \* output_dir: gamePk -> the game_<pk>.json there
  total_games_processed,
  total_games_skipped,
  total_games_failed,
  run,                       \* history: the number of this run
  cache_at_start,            \* history: output_dir when this run started
  visited,                   \* history: the dates this run has processed
  fetched,                   \* history: the game-detail requests of this run
  outcomes                   \* history: how many downloads ended in which way

vars ==
  <<pc, total_files, processed_files, all_max_speeds, all_avg_fastball_speeds,
    final_avg_fastball_speeds, kind, players_data_raw, player_names, max_speeds,
    fastball_speeds_dict, max_only_speeds, pitcher_id, pitcher_name_from_matchup, event,
    game_max_speeds, game_avg_fastball_speeds, artifact, written, cur_log,
    results, dpc, start_date, end_date, current_date, games_list, cache,
    total_games_processed, total_games_skipped, total_games_failed, run,
    cache_at_start, visited, fetched, outcomes>>

dlVars ==
  <<dpc, start_date, end_date, current_date, games_list, cache,
    total_games_processed, total_games_skipped, total_games_failed, run,
    cache_at_start, visited, fetched, outcomes>>

runVars ==
  <<pc, total_files, processed_files, all_max_speeds, all_avg_fastball_speeds,
    final_avg_fastball_speeds, kind, players_data_raw, player_names, max_speeds,
    fastball_speeds_dict, max_only_speeds, pitcher_id, pitcher_name_from_matchup, event,
    game_max_speeds, game_avg_fastball_speeds, artifact, written, cur_log,
    results>>

aggVars ==
  <<all_max_speeds, all_avg_fastball_speeds, final_avg_fastball_speeds>>

gameVars ==
  <<players_data_raw, player_names, max_speeds, fastball_speeds_dict,
    max_only_speeds, pitcher_id,
    pitcher_name_from_matchup, event, cur_log>>

(***************************************************************************)
(* The extractor, extract_max_and_avg_fastball_speeds_from_file.           *)
(***************************************************************************)
\* player_names: the roster entries with an id and a full name.
BuildPlayerNames(roster) ==
  [i \in {j \in DOMAIN roster : j # NoId /\ roster[j] # NoName} |-> roster[i]]

\* 'Unknown_Pitcher_Id_' + str(pitcher_id)
PlaceholderName(id) ==
  IF id = NoId THEN "Unknown_Pitcher_Id_None" ELSE "Unknown_Pitcher_Id_1"

\* pitcher_info.get('fullName', 'Unknown_Pitcher_Id_' + str(pitcher_id))
MatchupName(id, fullName) ==
  IF fullName = NoName THEN PlaceholderName(id) ELSE fullName

\* final_pitcher_name = pitcher_name_from_matchup, without the roster lookup.
ResolveNameFromMatchup(id, names, fromMatchup) == fromMatchup

\* final_pitcher_name
ResolveName(id, names, fromMatchup) ==
  IF id # NoId /\ id \in DOMAIN names THEN names[id] ELSE fromMatchup

\* pitch_data and 'startSpeed' in pitch_data, without the test of details.
QualifiesOnSpeed(ev) == ev.pd

\* pitch_data and 'startSpeed' in pitch_data and details and 'type' in details
Qualifies(ev) == ev.pd /\ ev.ty

\* d[name] = speed, without the comparison.
UpdateMaxLatest(d, name, speed) == Put(d, name, speed)

\* d[name] is set for a new name only, without the comparison.
UpdateMaxFirst(d, name, speed) ==
  IF name \in DOMAIN d THEN d ELSE Put(d, name, speed)

\* if speed > d[name]: d[name] = speed, on a defaultdict(float): reading
\* d[name] enters 0.0 for a new name.
UpdateMax(d, name, speed) ==
  LET cur == Get(d, name, FZero)
  IN Put(d, name, IF FGt(speed, cur) THEN speed ELSE cur)

\* d[name].append(speed), without the test of pitch_code.
AppendEveryPitch(d, name, speed, code) ==
  Put(d, name, Append(Get(d, name, <<>>), speed))

\* if pitch_code in FASTBALL_CODES: d[name].append(speed)
AppendFastball(d, name, speed, code) ==
  IF code \in FASTBALL_CODES
  THEN Put(d, name, Append(Get(d, name, <<>>), speed))
  ELSE d

\* avg_fastball_speeds: the mean of every non-empty fastball list.
GameAverages(d) ==
  [n \in {k \in DOMAIN d : d[k] # <<>>} |-> Mean(d[n])]

\* What the handler of an exception returns in place of a dictionary filled so
\* far, and what it would return if it returned that dictionary.
ReturnedPartial(partial) == partial

\* except Exception: return {}, {}
ReturnedOnError(partial) == EmptyDict

(***************************************************************************)
(* The max-only extractors, extract_max_speeds_from_file and               *)
(* get_max_speeds_from_game_api: the same loop without the fastball lists. *)
(***************************************************************************)
\* if pitch_data and 'startSpeed' in pitch_data
QualifiesMaxOnly(ev) == ev.pd

\* The body of the event loop on the event ev of a play whose pitcher resolves
\* to name: a startSpeed that float() rejects raises, and the extractor
\* returns an empty dictionary.
MaxOnlyFold(d, ev, name) ==
  IF ~QualifiesMaxOnly(ev) THEN d
  ELSE IF ev.raw = BadRaw THEN ReturnedOnError(d)
  ELSE UpdateMax(d, name, ToFloat(ev.raw))

(***************************************************************************)
(* The aggregator, aggregate_max_and_avg_speeds_from_directory.            *)
(***************************************************************************)
\* Only pitchers the aggregate already holds are updated.
MergeMaxKnownOnly(all, game) ==
  [n \in DOMAIN all |->
     IF n \in DOMAIN game THEN UpdateMax(all, n, game[n])[n] ELSE all[n]]

\* all_max_speeds[pitcher_name] = speed, without the comparison.
MergeMaxLatest(all, game) ==
  [n \in DOMAIN all \cup DOMAIN game |->
     IF n \in DOMAIN game THEN game[n] ELSE all[n]]

\* for pitcher_name, speed in game_max_speeds.items(): the running maximum.
MergeMax(all, game) ==
  [n \in DOMAIN all \cup DOMAIN game |->
     IF n \in DOMAIN game THEN UpdateMax(all, n, game[n])[n] ELSE all[n]]

\* all_avg_fastball_speeds[pitcher_name].insert(0, avg_speed)
MergeAvgPrepend(all, game) ==
  [n \in DOMAIN all \cup DOMAIN game |->
     IF n \in DOMAIN game THEN <<game[n]>> \o Get(all, n, <<>>) ELSE all[n]]

\* Every known pitcher gets a term for every game, 0.0 where the game has none.
MergeAvgZeroFill(all, game) ==
  [n \in DOMAIN all \cup DOMAIN game |->
     Append(Get(all, n, <<>>), Get(game, n, FZero))]

\* all_avg_fastball_speeds[pitcher_name] = [avg_speed], without the append.
MergeAvgLatest(all, game) ==
  [n \in DOMAIN all \cup DOMAIN game |->
     IF n \in DOMAIN game THEN <<game[n]>> ELSE all[n]]

\* for pitcher_name, avg_speed in game_avg_fastball_speeds.items(): append.
MergeAvg(all, game) ==
  [n \in DOMAIN all \cup DOMAIN game |->
     IF n \in DOMAIN game THEN Append(Get(all, n, <<>>), game[n]) ELSE all[n]]

\* final_avg_fastball_speeds: the mean of every non-empty list of averages.
FinalAverages(all) ==
  [n \in {k \in DOMAIN all : all[k] # <<>>} |-> Mean(all[n])]

\* for file_path in json_files: the loop over a list of returned games, for
\* the maxima and for the lists of averages.
RECURSIVE FoldMax(_, _)
FoldMax(acc, games) ==
  IF games = <<>> THEN acc
  ELSE FoldMax(MergeMax(acc, Head(games).max), Tail(games))

RECURSIVE FoldAvg(_, _)
FoldAvg(acc, games) ==
  IF games = <<>> THEN acc
  ELSE FoldAvg(MergeAvg(acc, Head(games).avg), Tail(games))

\* What the aggregator returns for a list of returned games.
AggregateMax(games) == FoldMax(EmptyDict, games)

AggregateAvg(games) == FinalAverages(FoldAvg(EmptyDict, games))

(***************************************************************************)
(* The reporter, save_combined_speeds_to_json.                             *)
(***************************************************************************)
\* The orders in which a set can be iterated.
Orders(S) ==
  {s \in [1..Cardinality(S) -> S] : \A i, j \in DOMAIN s : i # j => s[i] # s[j]}

\* An entry whose avg_fastball_speed defaults to the pitcher's max_speed.
EntryDefaultMax(name, maxd, avgd) ==
  [name |-> name, max_speed |-> Get(maxd, name, FZero),
   avg_fastball_speed |-> Get(avgd, name, Get(maxd, name, FZero))]

\* combined_dict[pitcher_name]
Entry(name, maxd, avgd) ==
  [name |-> name, max_speed |-> Get(maxd, name, FZero),
   avg_fastball_speed |-> Get(avgd, name, FZero)]

\* The entry is put at the end: the list keeps the order of iteration.
InsertAtEnd(sorted, x) == Append(sorted, x)

\* One entry put in its place in a list sorted by max_speed, reverse=True:
\* behind every entry that is not smaller (the sort is stable).
RECURSIVE InsertDesc(_, _)
InsertDesc(sorted, x) ==
  IF sorted = <<>> THEN <<x>>
  ELSE IF FGe(Head(sorted).max_speed, x.max_speed)
       THEN <<Head(sorted)>> \o InsertDesc(Tail(sorted), x)
       ELSE <<x>> \o sorted

\* sorted(items, key=max_speed, reverse=True)
RECURSIVE SortDescFrom(_, _)
SortDescFrom(sorted, xs) ==
  IF xs = <<>> THEN sorted
  ELSE SortDescFrom(InsertDesc(sorted, Head(xs)), Tail(xs))

SortDesc(xs) == SortDescFrom(<<>>, xs)

\* sorted_combined_dict for one iteration order of all_pitchers.
Combined(order, maxd, avgd) ==
  SortDesc([i \in DOMAIN order |-> Entry(order[i], maxd, avgd)])

\* The plot script's filter: df[df['avg_fastball_speed'] > 0]
KeptByFilter(entry) == FGt(entry.avg_fastball_speed, FZero)

(***************************************************************************)
(* The aggregation run, step by step.                                      *)
(***************************************************************************)
\* The qualifying pitches the run has kept so far.
RECURSIVE LoggedPitches(_)
LoggedPitches(rs) ==
  IF rs = <<>> THEN 0 ELSE Len(Head(rs).log) + LoggedPitches(Tail(rs))

NoOutcomes == [new |-> 0, hit |-> 0, false |-> 0]

DownloadIdle ==
  /\ dpc = "idle"
  /\ start_date = 1
  /\ end_date = 1
  /\ current_date = 1
  /\ games_list = <<>>
  /\ cache = <<>>
  /\ total_games_processed = 0
  /\ total_games_skipped = 0
  /\ total_games_failed = 0
  /\ run = 0
  /\ cache_at_start = <<>>
  /\ visited = <<>>
  /\ fetched = <<>>
  /\ outcomes = NoOutcomes

AggregationIdle ==
  /\ pc = "idle"
  /\ total_files = 0
  /\ processed_files = 0
  /\ all_max_speeds = EmptyDict
  /\ all_avg_fastball_speeds = EmptyDict
  /\ final_avg_fastball_speeds = EmptyDict
  /\ kind = "none"
  /\ players_data_raw = EmptyDict
  /\ player_names = EmptyDict
  /\ max_speeds = EmptyDict
  /\ fastball_speeds_dict = EmptyDict
  /\ max_only_speeds = EmptyDict
  /\ pitcher_id = NoId
  /\ pitcher_name_from_matchup = NoName
  /\ event = NoEvent
  /\ game_max_speeds = EmptyDict
  /\ game_avg_fastball_speeds = EmptyDict
  /\ artifact = <<>>
  /\ written = FALSE
  /\ cur_log = <<>>
  /\ results = <<>>

Init ==
  /\ DownloadIdle
  /\ pc = "loop"
  /\ total_files \in 0..MaxGames
  /\ processed_files = 0
  /\ all_max_speeds = EmptyDict
  /\ all_avg_fastball_speeds = EmptyDict
  /\ final_avg_fastball_speeds = EmptyDict
  /\ kind = "none"
  /\ players_data_raw = EmptyDict
  /\ player_names = EmptyDict
  /\ max_speeds = EmptyDict
  /\ fastball_speeds_dict = EmptyDict
  /\ max_only_speeds = EmptyDict
  /\ pitcher_id = NoId
  /\ pitcher_name_from_matchup = NoName
  /\ event = NoEvent
  /\ game_max_speeds = EmptyDict
  /\ game_avg_fastball_speeds = EmptyDict
  /\ artifact = <<>>
  /\ written = FALSE
  /\ cur_log = <<>>
  /\ results = <<>>

\* The extractor is called on the next file: it opens and parses it, finds the
\* play list and builds player_names; a file that cannot be read or parsed, or
\* that has no play list, makes it return two empty dictionaries.
OpenGame ==
  /\ pc = "loop"
  /\ processed_files < total_files
  /\ \E k \in FileKinds, roster \in Rosters :
       IF k \in {"allPlays", "plays.allPlays"}
       THEN /\ players_data_raw' = roster
            /\ player_names' = BuildPlayerNames(roster)
            /\ kind' = "parsed"
            /\ pc' = "plays"
       ELSE /\ players_data_raw' = EmptyDict
            /\ player_names' = EmptyDict
            /\ kind' = k
            /\ pc' = "merge"
  /\ max_speeds' = EmptyDict
  /\ fastball_speeds_dict' = EmptyDict
  /\ max_only_speeds' = EmptyDict
  /\ game_max_speeds' = EmptyDict
  /\ game_avg_fastball_speeds' = EmptyDict
  /\ cur_log' = <<>>
  /\ pitcher_id' = NoId
  /\ pitcher_name_from_matchup' = NoName
  /\ event' = NoEvent
  /\ UNCHANGED dlVars
  /\ UNCHANGED <<total_files, processed_files, aggVars, artifact, written,
                 results>>

\* for play in all_plays_data: a play without playEvents is skipped, another
\* gives the pitcher of its matchup.
NextPlay ==
  /\ pc = "plays"
  /\ \E hasEvents \in BOOLEAN, pitcher_info \in Matchups :
       IF hasEvents
       THEN /\ pitcher_id' = pitcher_info.id
            /\ pitcher_name_from_matchup' =
                 MatchupName(pitcher_info.id, pitcher_info.fullName)
            /\ pc' = "events"
       ELSE UNCHANGED <<pitcher_id, pitcher_name_from_matchup, pc>>
  /\ event' = NoEvent
  /\ UNCHANGED dlVars
  /\ UNCHANGED <<total_files, processed_files, aggVars, kind, players_data_raw,
                 player_names, max_speeds, fastball_speeds_dict, max_only_speeds,
                 game_max_speeds, game_avg_fastball_speeds, artifact, written,
                 cur_log, results>>

\* for event in play['playEvents']: a qualifying event is folded into the
\* game's maxima and fastball lists; a startSpeed that float() rejects raises,
\* and the extractor returns two empty dictionaries.  With both, the max-only
\* extractor reads the same event.
ProcessEventAnd(both) ==
  /\ pc = "events"
  /\ \E ev \in Events :
       /\ Qualifies(ev) /\ ev.raw # BadRaw
            => Len(cur_log) + LoggedPitches(results) < MaxPitches
       /\ event' = ev
       /\ max_only_speeds' =
            IF both
            THEN MaxOnlyFold(max_only_speeds, ev,
                             ResolveName(pitcher_id, player_names,
                                         pitcher_name_from_matchup))
            ELSE max_only_speeds
       /\ IF ~Qualifies(ev)
          THEN UNCHANGED <<pc, kind, max_speeds, fastball_speeds_dict, cur_log,
                           game_max_speeds, game_avg_fastball_speeds>>
          ELSE IF ev.raw = BadRaw
          THEN /\ pc' = "merge"
               /\ kind' = "raised"
               /\ game_max_speeds' = ReturnedOnError(max_speeds)
               /\ game_avg_fastball_speeds' =
                    ReturnedOnError(GameAverages(fastball_speeds_dict))
               /\ UNCHANGED <<max_speeds, fastball_speeds_dict, cur_log>>
          ELSE LET speed == ToFloat(ev.raw)
                   name == ResolveName(pitcher_id, player_names,
                                       pitcher_name_from_matchup)
               IN /\ max_speeds' = UpdateMax(max_speeds, name, speed)
                  /\ fastball_speeds_dict' =
                       AppendFastball(fastball_speeds_dict, name, speed, ev.code)
                  /\ cur_log' = Append(cur_log,
                       [name |-> name, speed |-> speed, code |-> ev.code])
                  /\ UNCHANGED <<pc, kind, game_max_speeds,
                                 game_avg_fastball_speeds>>
  /\ UNCHANGED dlVars
  /\ UNCHANGED <<total_files, processed_files, aggVars, players_data_raw,
                 player_names, pitcher_id, pitcher_name_from_matchup, artifact,
                 written, results>>

\* The combined extractor alone, as the aggregation runs it.
ProcessEvent == ProcessEventAnd(FALSE)

\* The combined extractor and the max-only extractor on the same event.
ProcessEventBoth == ProcessEventAnd(TRUE)

\* The events of the play are exhausted.
EndPlay ==
  /\ pc = "events"
  /\ pc' = "plays"
  /\ pitcher_id' = NoId
  /\ pitcher_name_from_matchup' = NoName
  /\ event' = NoEvent
  /\ UNCHANGED dlVars
  /\ UNCHANGED <<total_files, processed_files, aggVars, kind, players_data_raw,
                 player_names, max_speeds, fastball_speeds_dict, max_only_speeds,
                 cur_log, game_max_speeds, game_avg_fastball_speeds, artifact,
                 written, results>>

\* The plays are exhausted: the extractor averages the fastball lists and
\* returns.
ReturnGame ==
  /\ pc = "plays"
  /\ game_max_speeds' = max_speeds
  /\ game_avg_fastball_speeds' = GameAverages(fastball_speeds_dict)
  /\ pc' = "merge"
  /\ UNCHANGED dlVars
  /\ UNCHANGED <<total_files, processed_files, aggVars, kind, gameVars,
                 artifact, written, results>>

\* The aggregator folds what the extractor returned into the aggregate.
MergeGame ==
  /\ pc = "merge"
  /\ processed_files' = processed_files + 1
  /\ all_max_speeds' = MergeMax(all_max_speeds, game_max_speeds)
  /\ all_avg_fastball_speeds' =
       MergeAvg(all_avg_fastball_speeds, game_avg_fastball_speeds)
  /\ results' = Append(results,
       [max |-> game_max_speeds, avg |-> game_avg_fastball_speeds,
        log |-> IF kind = "parsed" THEN cur_log ELSE <<>>])
  /\ pc' = "loop"
  /\ UNCHANGED dlVars
  /\ UNCHANGED <<total_files, final_avg_fastball_speeds, kind, gameVars,
                 game_max_speeds, game_avg_fastball_speeds, artifact, written>>

\* Every file is processed: the final averages are computed and returned.
Finalize ==
  /\ pc = "loop"
  /\ processed_files = total_files
  /\ final_avg_fastball_speeds' = FinalAverages(all_avg_fastball_speeds)
  /\ pc' = "main"
  /\ UNCHANGED dlVars
  /\ UNCHANGED <<total_files, processed_files, all_max_speeds,
                 all_avg_fastball_speeds, kind, gameVars, game_max_speeds,
                 game_avg_fastball_speeds, artifact, written, results>>

\* __main__: with a result, save_combined_speeds_to_json writes the entries of
\* all_pitchers, a set iterated in some order, sorted by max_speed; a failure
\* to write is caught and leaves no artifact.
Save ==
  /\ pc = "main"
  /\ all_max_speeds # EmptyDict \/ final_avg_fastball_speeds # EmptyDict
  /\ \E ok \in BOOLEAN :
       \E order \in Orders(DOMAIN all_max_speeds
                             \cup DOMAIN final_avg_fastball_speeds) :
         /\ written' = ok
         /\ artifact' =
              IF ok
              THEN Combined(order, all_max_speeds, final_avg_fastball_speeds)
              ELSE <<>>
  /\ pc' = "done"
  /\ UNCHANGED dlVars
  /\ UNCHANGED <<total_files, processed_files, aggVars, kind, gameVars,
                 game_max_speeds, game_avg_fastball_speeds, results>>

\* __main__ with no result at all: nothing is saved.
NothingToSave ==
  /\ pc = "main"
  /\ all_max_speeds = EmptyDict /\ final_avg_fastball_speeds = EmptyDict
  /\ pc' = "done"
  /\ UNCHANGED dlVars
  /\ UNCHANGED <<total_files, processed_files, aggVars, kind, gameVars,
                 game_max_speeds, game_avg_fastball_speeds, artifact, written,
                 results>>

Next ==
  \/ OpenGame
  \/ NextPlay
  \/ ProcessEvent
  \/ EndPlay
  \/ ReturnGame
  \/ MergeGame
  \/ Finalize
  \/ Save
  \/ NothingToSave

Spec == Init /\ [][Next]_vars

\* One game file read by the combined extractor and by a max-only extractor.
InitMaxOnly ==
  /\ Init
  /\ total_files = 1

NextMaxOnly ==
  \/ OpenGame
  \/ NextPlay
  \/ ProcessEventBoth
  \/ EndPlay
  \/ ReturnGame

SpecMaxOnly == InitMaxOnly /\ [][NextMaxOnly]_vars

(***************************************************************************)
(* The download script, download.py.                                       *)
(***************************************************************************)
\* Game identifiers are positive; NoPk stands for a game without gamePk.
NoPk == 0
GamePks == {1, 2}

\* What the schedule request of one date can give: a transport or HTTP error,
\* a body that is not JSON, an object without date groups, an object whose
\* first date group lists games, and a JSON body that is not an object.
ScheduleKinds == {"request_error", "json_error", "no_dates", "games", "not_object"}

\* dates_data[0].get("games", []): up to MaxGamesPerDay games.
GameLists ==
  UNION {[1..n -> GamePks \cup {NoPk}] : n \in 0..MaxGamesPerDay}

\* What the request and the write of one game can give: the request fails, the
\* body is not JSON, the file cannot be opened, the dump fails after the file
\* was opened, or the file is written.
DownloadKinds == {"request_error", "decode_error", "open_error", "write_error", "ok"}

\* get_schedule_data_for_date: the two failures it catches give {}, which
\* has no date groups.
DatesData(k, games) == IF k = "games" THEN <<games>> ELSE <<>>

\* os.path.exists(file_path)
Exists(files, pk) == pk \in DOMAIN files

\* download_game_data without the test of os.path.exists: every call sends the
\* request and writes the file.
DownloadGameDataAlways(files, pk, k, r) ==
  IF k = "ok"
  THEN [success |-> TRUE, requested |-> TRUE,
        files |-> Put(files, pk, [run |-> r, complete |-> TRUE])]
  ELSE IF k = "write_error"
  THEN [success |-> FALSE, requested |-> TRUE,
        files |-> Put(files, pk, [run |-> r, complete |-> FALSE])]
  ELSE [success |-> FALSE, files |-> files, requested |-> TRUE]

\* download_game_data: what it returns, the directory it leaves and whether it
\* sent the request.  An existing file is a success without a request; a file
\* opened for writing exists from then on, whatever the dump does.
DownloadGameData(files, pk, k, r) ==
  IF Exists(files, pk)
  THEN [success |-> TRUE, files |-> files, requested |-> FALSE]
  ELSE IF k = "ok"
  THEN [success |-> TRUE, requested |-> TRUE,
        files |-> Put(files, pk, [run |-> r, complete |-> TRUE])]
  ELSE IF k = "write_error"
  THEN [success |-> FALSE, requested |-> TRUE,
        files |-> Put(files, pk, [run |-> r, complete |-> FALSE])]
  ELSE [success |-> FALSE, files |-> files, requested |-> TRUE]

InitDownload ==
  /\ AggregationIdle
  /\ dpc = "dates"
  /\ start_date \in 1..MaxDate
  /\ end_date \in 1..MaxDate
  /\ current_date = start_date
  /\ games_list = <<>>
  /\ cache = <<>>
  /\ total_games_processed = 0
  /\ total_games_skipped = 0
  /\ total_games_failed = 0
  /\ run = 1
  /\ cache_at_start = <<>>
  /\ visited = <<>>
  /\ fetched = <<>>
  /\ outcomes = NoOutcomes

\* while current_date <= end_date: the schedule of the date is requested.  A
\* date without date groups is skipped; a body that is not an object raises
\* at schedule_data.get, outside every try.
FetchSchedule ==
  /\ dpc = "dates"
  /\ current_date <= end_date
  /\ visited' = Append(visited, current_date)
  /\ \E k \in ScheduleKinds, games \in GameLists :
       IF k = "not_object"
       THEN /\ dpc' = "crashed"
            /\ UNCHANGED <<current_date, games_list>>
       ELSE IF DatesData(k, games) = <<>>
       THEN /\ current_date' = current_date + 1
            /\ UNCHANGED <<dpc, games_list>>
       ELSE /\ games_list' = DatesData(k, games)[1]
            /\ dpc' = "games"
            /\ UNCHANGED current_date
  /\ UNCHANGED runVars
  /\ UNCHANGED <<start_date, end_date, cache, total_games_processed,
                 total_games_skipped, total_games_failed, run, cache_at_start,
                 fetched, outcomes>>

\* for game in games_list: a game without gamePk is skipped; another is
\* downloaded and counted.
DownloadGame ==
  /\ dpc = "games"
  /\ games_list # <<>>
  /\ games_list' = Tail(games_list)
  /\ LET game_pk == Head(games_list)
     IN IF game_pk = NoPk
        THEN UNCHANGED <<cache, total_games_processed, total_games_skipped,
                         total_games_failed, fetched, outcomes>>
        ELSE \E k \in DownloadKinds :
               LET d == DownloadGameData(cache, game_pk, k, run)
               IN /\ cache' = d.files
                  /\ fetched' = IF d.requested THEN Append(fetched, game_pk)
                                               ELSE fetched
                  /\ total_games_skipped' =
                       IF d.success /\ Exists(d.files, game_pk)
                       THEN total_games_skipped + 1 ELSE total_games_skipped
                  /\ total_games_processed' =
                       IF d.success /\ ~Exists(d.files, game_pk)
                       THEN total_games_processed + 1 ELSE total_games_processed
                  /\ total_games_failed' =
                       IF d.success THEN total_games_failed
                                    ELSE total_games_failed + 1
                  /\ outcomes' =
                       IF ~d.success
                       THEN [outcomes EXCEPT !.false = @ + 1]
                       ELSE IF d.requested
                       THEN [outcomes EXCEPT !.new = @ + 1]
                       ELSE [outcomes EXCEPT !.hit = @ + 1]
  /\ UNCHANGED runVars
  /\ UNCHANGED <<dpc, start_date, end_date, current_date, run, cache_at_start,
                 visited>>

\* The games of the date are exhausted: current_date += timedelta(days=1).
EndDate ==
  /\ dpc = "games"
  /\ games_list = <<>>
  /\ current_date' = current_date + 1
  /\ dpc' = "dates"
  /\ UNCHANGED runVars
  /\ UNCHANGED <<start_date, end_date, games_list, cache,
                 total_games_processed, total_games_skipped,
                 total_games_failed, run, cache_at_start, visited, fetched,
                 outcomes>>

\* current_date > end_date: the totals are printed and the run ends.
FinishDownload ==
  /\ dpc = "dates"
  /\ current_date > end_date
  /\ dpc' = "done"
  /\ UNCHANGED runVars
  /\ UNCHANGED <<start_date, end_date, current_date, games_list, cache,
                 total_games_processed, total_games_skipped,
                 total_games_failed, run, cache_at_start, visited, fetched,
                 outcomes>>

\* The script is run again over the same dates and the same directory.
Rerun ==
  /\ dpc = "done"
  /\ run < MaxRuns
  /\ run' = run + 1
  /\ dpc' = "dates"
  /\ current_date' = start_date
  /\ total_games_processed' = 0
  /\ total_games_skipped' = 0
  /\ total_games_failed' = 0
  /\ cache_at_start' = cache
  /\ visited' = <<>>
  /\ fetched' = <<>>
  /\ outcomes' = NoOutcomes
  /\ UNCHANGED runVars
  /\ UNCHANGED <<start_date, end_date, games_list, cache>>

NextDownload ==
  \/ FetchSchedule
  \/ DownloadGame
  \/ EndDate
  \/ FinishDownload
  \/ Rerun

SpecDownload == InitDownload /\ [][NextDownload]_vars

(***************************************************************************)
(* What the aggregation is said to do, stated over the history of the run: *)
(* results holds, per game folded so far, what the extractor returned and  *)
(* the qualifying pitches it returned it from.                             *)
(***************************************************************************)
\* The largest of a non-empty set of floats.
FMaxOf(S) == CHOOSE x \in S : \A y \in S : FGe(x, y)

\* The games folded so far whose returned maxima include pitcher p.
GamesWithMax(p) == {i \in DOMAIN results : p \in DOMAIN results[i].max}

\* The speeds of the logged pitches of p, in order: all of them, or those
\* whose code is one of the four fastball codes.
SpeedsOf(log, p) ==
  LET own == SelectSeq(log, LAMBDA e : e.name = p)
  IN [k \in DOMAIN own |-> own[k].speed]

FastballSpeedsOf(log, p) ==
  LET own == SelectSeq(log,
               LAMBDA e : e.name = p /\ e.code \in {"FF", "FT", "SI", "FC"})
  IN [k \in DOMAIN own |-> own[k].speed]

Range(f) == {f[x] : x \in DOMAIN f}

\* Every name a pitch of the run was recorded under.
LoggedNames == UNION {{e.name : e \in Range(results[i].log)} : i \in DOMAIN results}

\* C1: after any number of games have been folded, a pitcher has an overall
\* maximum exactly if some folded game returned a maximum for the pitcher, and
\* it is the largest of those per-game maxima: the largest qualifying
\* pitch speed of the pitcher in all those games.
C1_OverallMaxIsMaxOfGameMaxima ==
  pc \in {"loop", "main", "done"} =>
    /\ DOMAIN all_max_speeds = UNION {DOMAIN results[i].max : i \in DOMAIN results}
    /\ \A p \in DOMAIN all_max_speeds :
         /\ all_max_speeds[p] = FMaxOf({results[i].max[p] : i \in GamesWithMax(p)})
         /\ all_max_speeds[p] =
              FMaxOf(UNION {Range(SpeedsOf(results[i].log, p)) : i \in GamesWithMax(p)})

\* A finished run in which a pitcher's maximum was larger in the first game
\* than in a later one, and the overall maximum is the first game's.
C1_Witness ==
  /\ pc = "done"
  /\ \E p \in DOMAIN all_max_speeds :
       \E i, j \in GamesWithMax(p) :
         /\ i < j
         /\ FGt(results[i].max[p], results[j].max[p])
         /\ all_max_speeds[p] = results[i].max[p]

\* The games folded so far in which p threw at least one fastball.
RECURSIVE SetToSeq(_)
SetToSeq(S) ==
  IF S = {} THEN <<>>
  ELSE LET m == CHOOSE x \in S : \A y \in S : x <= y
       IN <<m>> \o SetToSeq(S \ {m})

FastballGames(p) ==
  SetToSeq({i \in DOMAIN results : FastballSpeedsOf(results[i].log, p) # <<>>})

\* The mean of p's fastballs in each of those games, in the order of the fold.
PerGameMeans(p) ==
  LET g == FastballGames(p)
  IN [k \in DOMAIN g |-> Mean(FastballSpeedsOf(results[g[k]].log, p))]

\* Every fastball of p in the run, in order.
RECURSIVE AllFastballs(_, _)
AllFastballs(rs, p) ==
  IF rs = <<>> THEN <<>>
  ELSE FastballSpeedsOf(Head(rs).log, p) \o AllFastballs(Tail(rs), p)

\* C2: the final average of a pitcher is the mean of the per-game averages,
\* one term for each game in which the pitcher threw at least one fastball,
\* however many fastballs each of those games had; a pitcher without a
\* fastball in any game has no final average.
C2_FinalAverageIsMeanOfGameMeans ==
  pc \in {"main", "done"} =>
    /\ DOMAIN final_avg_fastball_speeds = {p \in LoggedNames : FastballGames(p) # <<>>}
    /\ \A p \in DOMAIN final_avg_fastball_speeds :
         final_avg_fastball_speeds[p] = Mean(PerGameMeans(p))

\* A finished run in which a pitcher threw two fastballs in one game and one
\* in another, and the final average is the mean of the two per-game means
\* and not the mean of the three pitches.
C2_Witness ==
  /\ pc = "done"
  /\ \E p \in DOMAIN final_avg_fastball_speeds :
       /\ Len(PerGameMeans(p)) = 2
       /\ Len(AllFastballs(results, p)) = 3
       /\ final_avg_fastball_speeds[p] = Mean(PerGameMeans(p))
       /\ final_avg_fastball_speeds[p] # Mean(AllFastballs(results, p))

\* The names the current game has recorded a pitch under.
CurNames == {e.name : e \in Range(cur_log)}

\* C3: inside a game every qualifying pitch, whatever its code, counts for the
\* maximum of its pitcher, and the fastball list of a pitcher holds the
\* pitches with one of the four fastball codes and no other: a pitch with
\* another code changes no list, so no per-game average.
C3_OtherCodesOnlyCountForMax ==
  /\ pc \in {"plays", "events"} =>
       /\ \A e \in Range(cur_log) :
            e.name \in DOMAIN max_speeds /\ FGe(max_speeds[e.name], e.speed)
       /\ \A p \in CurNames \cup DOMAIN fastball_speeds_dict :
            Get(fastball_speeds_dict, p, <<>>) = FastballSpeedsOf(cur_log, p)
  /\ pc = "merge" /\ kind = "parsed" =>
       /\ DOMAIN game_avg_fastball_speeds =
            {p \in CurNames : FastballSpeedsOf(cur_log, p) # <<>>}
       /\ \A p \in DOMAIN game_avg_fastball_speeds :
            game_avg_fastball_speeds[p] = Mean(FastballSpeedsOf(cur_log, p))
       /\ \A e \in Range(cur_log) :
            e.name \in DOMAIN game_max_speeds
              /\ FGe(game_max_speeds[e.name], e.speed)

\* A game returned with a pitcher whose maximum is a curveball's speed and
\* whose average is the mean of the fastballs alone, below that maximum.
C3_Witness ==
  /\ pc = "merge" /\ kind = "parsed"
  /\ \E p \in DOMAIN game_avg_fastball_speeds :
       /\ \E e \in Range(cur_log) :
            e.name = p /\ e.code = "CU" /\ game_max_speeds[p] = e.speed
       /\ Len(FastballSpeedsOf(cur_log, p)) < Len(SpeedsOf(cur_log, p))
       /\ FGt(game_max_speeds[p], game_avg_fastball_speeds[p])

\* C4: a qualifying pitch is recorded under the roster full name of the play's
\* pitcher when the pitcher's id is present and the game's roster has it with
\* a full name, whatever name the matchup gives; otherwise under the name
\* from the matchup.
C4_RosterNameWins ==
  pc = "events" /\ Qualifies(event) /\ event.raw # BadRaw =>
    LET inRoster == /\ pitcher_id # NoId
                    /\ pitcher_id \in DOMAIN players_data_raw
                    /\ players_data_raw[pitcher_id] # NoName
        expected == IF inRoster THEN players_data_raw[pitcher_id]
                                ELSE pitcher_name_from_matchup
    IN /\ cur_log # <<>>
       /\ cur_log[Len(cur_log)].name = expected
       /\ expected \in DOMAIN max_speeds
       /\ FGe(max_speeds[expected], ToFloat(event.raw))

\* A pitch of a pitcher whom the roster names X and the matchup names Y has
\* been recorded under X; the matchup's name has no entry.
C4_Witness ==
  /\ pc = "events" /\ Qualifies(event) /\ event.raw # BadRaw
  /\ pitcher_id \in DOMAIN players_data_raw
  /\ players_data_raw[pitcher_id] = "X"
  /\ pitcher_name_from_matchup = "Y"
  /\ cur_log[Len(cur_log)].name = "X"
  /\ "Y" \notin DOMAIN max_speeds

\* C5: for a file that cannot be parsed as JSON, or that has no play list in
\* either place, the extractor returns two empty dictionaries, and folding
\* them leaves the aggregate as it was: the run goes on to the next file.
C5_UnusableGameChangesNothing ==
  [][pc = "merge" /\ kind \in {"unparseable", "no_allPlays"} =>
       /\ game_max_speeds = EmptyDict
       /\ game_avg_fastball_speeds = EmptyDict
       /\ all_max_speeds' = all_max_speeds
       /\ all_avg_fastball_speeds' = all_avg_fastball_speeds
       /\ processed_files' = processed_files + 1
       /\ pc' = "loop"]_vars

\* Such a file has been folded into an aggregate that held maxima and
\* averages, and they are still there.
C5_Witness ==
  /\ pc = "loop"
  /\ kind \in {"unparseable", "no_allPlays"}
  /\ Len(results) >= 2
  /\ results[Len(results)].max = EmptyDict
  /\ results[Len(results)].avg = EmptyDict
  /\ all_max_speeds # EmptyDict
  /\ all_avg_fastball_speeds # EmptyDict
  /\ all_max_speeds = results[Len(results) - 1].max

\* C8: the entries of a written artifact are in non-increasing order of
\* max_speed, one entry for every pitcher of the result.
C8_ArtifactSortedByMaxSpeed ==
  written =>
    /\ Len(artifact) =
         Cardinality(DOMAIN all_max_speeds \cup DOMAIN final_avg_fastball_speeds)
    /\ \A i \in 1..(Len(artifact) - 1) :
         FGe(artifact[i].max_speed, artifact[i + 1].max_speed)

\* A written artifact of three pitchers whose maxima are not all equal.
C8_Witness ==
  /\ written
  /\ Len(artifact) = 3
  /\ FGt(artifact[1].max_speed, artifact[3].max_speed)

\* The games folded by the run, taken in another order.
Reordered(o) == [i \in DOMAIN o |-> results[o[i]]]

\* C9: whatever the order in which the games of the run are folded, the
\* overall maxima are the same.
C9_MaxIndependentOfOrder ==
  pc \in {"main", "done"} =>
    \A o \in Orders(DOMAIN results) :
      AggregateMax(Reordered(o)) = all_max_speeds

\* A finished run of three games, two of which returned different maxima
\* for the same pitcher.
C9_Witness ==
  /\ pc = "done"
  /\ Len(results) = 3
  /\ \E p \in DOMAIN all_max_speeds :
       \E i, j \in GamesWithMax(p) :
         i < j /\ FGt(results[j].max[p], results[i].max[p])

\* The per-game averages of p in a list of returned games, in its order.
AveragesOf(games, p) ==
  LET own == SelectSeq(games, LAMBDA g : p \in DOMAIN g.avg)
  IN [k \in DOMAIN own |-> own[k].avg[p]]

\* a and b are both within the rounding error of the exact mean of the same n
\* floats: a * (1 - n * 2^-SigBits)^2 <= b, and the same with a and b
\* exchanged.
WithinRounding(a, b, n) ==
  LET em == IF a[2] < b[2] THEN a[2] ELSE b[2]
      x == a[1] * Pow2(a[2] - em)
      y == b[1] * Pow2(b[2] - em)
      k == (Pow2(SigBits) - n) * (Pow2(SigBits) - n)
      w == Pow2(SigBits) * Pow2(SigBits)
  IN x * k <= y * w /\ y * k <= x * w

C6_NoFailureEndsTheRun == dpc # "crashed"

\* C7: a game whose cache file exists is not requested, its file is left as
\* it is and the call counts as a success; so a run requests no game whose
\* file was there when the run started, and leaves every such file unchanged.
C7_CachedGameIsNotFetched ==
  [][/\ (dpc = "games" /\ games_list # <<>> /\ Exists(cache, Head(games_list)))
          => /\ fetched' = fetched
             /\ cache' = cache
             /\ total_games_failed' = total_games_failed
             /\ total_games_skipped' = total_games_skipped + 1
     /\ \A i \in DOMAIN fetched' : ~Exists(cache_at_start', fetched'[i])
     /\ \A pk \in DOMAIN cache_at_start' :
          Exists(cache', pk) /\ cache'[pk] = cache_at_start'[pk]]_vars

\* A finished second run over a directory that held a game: that game was met
\* again and not requested, another game was requested.
C7_Witness ==
  /\ run = 2
  /\ dpc = "done"
  /\ cache_at_start # <<>>
  /\ outcomes.hit >= 1
  /\ total_games_skipped >= 1
  /\ fetched # <<>>
  /\ \A i \in DOMAIN fetched : ~Exists(cache_at_start, fetched[i])

(***************************************************************************)
(* Further properties of the aggregation.                                  *)
(***************************************************************************)
\* C11: the recorded maximum of a pitcher never decreases.  Inside a game
\* every step leaves max_speeds[p] as it is or raises it to the speed of the
\* event just folded; every step of the run leaves all_max_speeds[p] as it is
\* or raises it to the maximum the game just folded returned for p.
C11_MaxNeverDecreases ==
  [][/\ pc # "loop" =>
          \A p \in DOMAIN max_speeds :
            /\ p \in DOMAIN max_speeds'
            /\ \/ max_speeds'[p] = max_speeds[p]
               \/ /\ FGt(max_speeds'[p], max_speeds[p])
                  /\ max_speeds'[p] = ToFloat(event'.raw)
     /\ \A p \in DOMAIN all_max_speeds :
          /\ p \in DOMAIN all_max_speeds'
          /\ \/ all_max_speeds'[p] = all_max_speeds[p]
             \/ /\ FGt(all_max_speeds'[p], all_max_speeds[p])
                /\ p \in DOMAIN game_max_speeds
                /\ all_max_speeds'[p] = game_max_speeds[p]]_vars

\* A slower pitch of a pitcher has just been folded in after a faster one,
\* and the pitcher's maximum is still the faster one.
C11_Witness ==
  /\ pc = "events"
  /\ Len(cur_log) >= 2
  /\ LET last == cur_log[Len(cur_log)]
         prev == cur_log[Len(cur_log) - 1]
     IN /\ last.name = prev.name
        /\ FGt(prev.speed, last.speed)
        /\ Qualifies(event) /\ ToFloat(event.raw) = last.speed
        /\ max_speeds[last.name] = prev.speed

\* C12: a pitcher without a fastball in a game is absent from the averages
\* that game returns, though present in its maxima, and the game adds no term
\* for the pitcher: after every fold the list of per-game averages of a
\* pitcher has one term for each game in which the pitcher threw at least one
\* fastball, and its length is the denominator of the final average.
C12_NoFastballNoTerm ==
  /\ pc = "merge" /\ kind = "parsed" =>
       \A p \in CurNames :
         /\ p \in DOMAIN game_max_speeds
         /\ FastballSpeedsOf(cur_log, p) = <<>>
              => p \notin DOMAIN game_avg_fastball_speeds
  /\ pc \in {"loop", "main", "done"} =>
       \A p \in LoggedNames \cup DOMAIN all_avg_fastball_speeds :
         Len(Get(all_avg_fastball_speeds, p, <<>>)) = Len(FastballGames(p))
  /\ pc \in {"main", "done"} =>
       \A p \in DOMAIN final_avg_fastball_speeds :
         final_avg_fastball_speeds[p] =
           FDivInt(FSum(all_avg_fastball_speeds[p]), Len(FastballGames(p)))

\* A finished run in which a pitcher pitched in two games and threw fastballs
\* in one of them only: the final average is that game's average.
C12_Witness ==
  /\ pc = "done"
  /\ \E p \in DOMAIN final_avg_fastball_speeds :
       \E i, j \in GamesWithMax(p) :
         /\ i # j
         /\ p \in DOMAIN results[i].avg
         /\ p \notin DOMAIN results[j].avg
         /\ Len(FastballGames(p)) = 1
         /\ final_avg_fastball_speeds[p] = results[i].avg[p]

\* C13: the maxima a game returns are, for every pitcher, the largest speed
\* of the pitcher's events that carry both startSpeed and type.  A step on an
\* event that lacks either changes neither the maxima nor the fastball lists;
\* a step on an event that carries both records its speed.
C13_GameMaxOverQualifyingEvents ==
  [][/\ pc = "events" /\ pc' = "events" =>
          IF event'.pd /\ event'.ty
          THEN /\ Len(cur_log') = Len(cur_log) + 1
               /\ cur_log'[Len(cur_log')].speed = ToFloat(event'.raw)
          ELSE /\ max_speeds' = max_speeds
               /\ fastball_speeds_dict' = fastball_speeds_dict
               /\ cur_log' = cur_log
     /\ pc' = "merge" /\ kind' = "parsed" =>
          /\ DOMAIN game_max_speeds' = {e.name : e \in Range(cur_log')}
          /\ \A p \in DOMAIN game_max_speeds' :
               game_max_speeds'[p] = FMaxOf(Range(SpeedsOf(cur_log', p)))]_vars

\* An event with a startSpeed of 99.0 and no type has been met in a game
\* whose maxima are all lower, and they still are.
C13_Witness ==
  /\ pc = "events"
  /\ event.pd /\ ~event.ty /\ event.raw = 990
  /\ max_speeds # EmptyDict
  /\ \A p \in DOMAIN max_speeds : FGt(ToFloat(990), max_speeds[p])

\* C14: when the download run has finished, total_games_processed counts the
\* games fetched and written in this run, total_games_skipped those whose
\* file was there before the attempt, total_games_failed those whose download
\* returned False.
C14_CountersMatchOutcomes ==
  dpc = "done" =>
    /\ total_games_processed = outcomes.new
    /\ total_games_skipped = outcomes.hit
    /\ total_games_failed = outcomes.false

\* C15: a cache file exists only if it holds a complete response: a download
\* that returned False has left no file.
C15_FailedDownloadLeavesNoFile ==
  \A pk \in DOMAIN cache : cache[pk].complete

\* C16: a game in which an event raises contributes nothing.  While a game is
\* read the aggregate is not touched; when an event has raised, the extractor
\* has returned two empty dictionaries, whatever the game had recorded before,
\* and the fold leaves the maxima and the lists of averages as they were.
C16_RaisingGameContributesNothing ==
  [][/\ pc \in {"plays", "events"} =>
          /\ all_max_speeds' = all_max_speeds
          /\ all_avg_fastball_speeds' = all_avg_fastball_speeds
     /\ pc = "merge" /\ kind = "raised" =>
          /\ game_max_speeds = EmptyDict
          /\ game_avg_fastball_speeds = EmptyDict
          /\ all_max_speeds' = all_max_speeds
          /\ all_avg_fastball_speeds' = all_avg_fastball_speeds
          /\ results'[Len(results')].log = <<>>]_vars

\* A game that had recorded a maximum and a fastball before an event raised
\* has been folded into an aggregate that held other values, and the
\* aggregate is what the game before left.
C16_Witness ==
  /\ pc = "loop"
  /\ kind = "raised"
  /\ max_speeds # EmptyDict
  /\ fastball_speeds_dict # EmptyDict
  /\ Len(results) = 2
  /\ results[1].max # EmptyDict
  /\ results[2].max = EmptyDict
  /\ all_max_speeds = results[1].max
  /\ \E p \in DOMAIN max_speeds :
       p \in DOMAIN all_max_speeds /\ FGt(max_speeds[p], all_max_speeds[p])

\* a <= m up to the rounding of a float mean of n1 terms that are themselves
\* float means of at most n2 terms not above m:
\* a * (1 - n1 * 2^-SigBits) * (1 - n2 * 2^-SigBits) <= m.
LeqUpToRounding(a, m, n1, n2) ==
  LET em == IF a[2] < m[2] THEN a[2] ELSE m[2]
      x == a[1] * Pow2(a[2] - em)
      y == m[1] * Pow2(m[2] - em)
  IN x * (Pow2(SigBits) - n1) * (Pow2(SigBits) - n2)
       <= y * Pow2(SigBits) * Pow2(SigBits)

\* The largest number of fastballs of p in one game of the run.
MostFastballs(p) ==
  LET counts == {Len(FastballSpeedsOf(results[i].log, p)) : i \in DOMAIN results}
  IN CHOOSE n \in counts \cup {0} : \A k \in counts : n >= k

\* C17 as stated: wherever a pitcher has an average, in what a game returns
\* and in the final result, the pitcher has a maximum, and it is at least
\* the average.
C17_MaxAtLeastAverage ==
  /\ pc = "merge" =>
       \A p \in DOMAIN game_avg_fastball_speeds :
         /\ p \in DOMAIN game_max_speeds
         /\ FGe(game_max_speeds[p], game_avg_fastball_speeds[p])
  /\ pc \in {"main", "done"} =>
       \A p \in DOMAIN final_avg_fastball_speeds :
         /\ p \in DOMAIN all_max_speeds
         /\ FGe(all_max_speeds[p], final_avg_fastball_speeds[p])

\* C17, amended: wherever a pitcher has an average the pitcher has a maximum,
\* the maximum is at least every fastball speed the average is taken over,
\* and the average exceeds the maximum by no more than the rounding of the
\* float sums and divisions that produce it.
C17_MaxAtLeastAverageUpToRounding ==
  /\ pc = "merge" =>
       \A p \in DOMAIN game_avg_fastball_speeds :
         /\ p \in DOMAIN game_max_speeds
         /\ \A v \in Range(FastballSpeedsOf(cur_log, p)) :
              FGe(game_max_speeds[p], v)
         /\ LeqUpToRounding(game_avg_fastball_speeds[p], game_max_speeds[p],
                            Len(FastballSpeedsOf(cur_log, p)), 0)
  /\ pc \in {"main", "done"} =>
       \A p \in DOMAIN final_avg_fastball_speeds :
         /\ p \in DOMAIN all_max_speeds
         /\ \A v \in Range(AllFastballs(results, p)) : FGe(all_max_speeds[p], v)
         /\ LeqUpToRounding(final_avg_fastball_speeds[p], all_max_speeds[p],
                            Len(FastballGames(p)), MostFastballs(p))

\* A game has returned, for a pitcher whose pitches all had the same speed,
\* an average above the maximum.
C17_Witness ==
  /\ pc = "merge"
  /\ \E p \in DOMAIN game_avg_fastball_speeds :
       /\ FGt(game_avg_fastball_speeds[p], game_max_speeds[p])
       /\ \A v \in Range(SpeedsOf(cur_log, p)) : v = game_max_speeds[p]

\* C18: for one game, the maxima the max-only extractor returns are the
\* maxima the combined extractor returns.
C18_SameMaxima ==
  pc = "merge" => max_only_speeds = game_max_speeds

DateRange ==
  IF start_date > end_date THEN <<>>
  ELSE [i \in 1..(end_date - start_date + 1) |-> start_date + i - 1]

\* C20: the download run visits the dates from the start date to the end date
\* once each, in ascending order, and then ends, whatever the schedule
\* requests and the downloads give; with the start date after the end date it
\* visits none.
C20_EveryDateVisitedOnce ==
  /\ Len(visited) <= Len(DateRange)
  /\ \A i \in DOMAIN visited : visited[i] = DateRange[i]
  /\ dpc \in {"done", "crashed"} => visited = DateRange
  /\ start_date > end_date => fetched = <<>> /\ dpc \in {"dates", "done"}

====
